---- MODULE Spec2Model ----
(***************************************************************************)
(* The reading-progress / reading-session store of                        *)
(* supabase/migrations/20240320000000_create_reading_tables.sql: two      *)
(* tables with foreign keys, a uniqueness constraint, column defaults, a  *)
(* BEFORE UPDATE trigger and row-level security policies, together with   *)
(* the data-access operations that run against them.                      *)
(*                                                                         *)
(* Representation.  A UUID is a string (users, books) or a serial number  *)
(* (row ids: gen_random_uuid() yields a fresh value).  A timestamp is the *)
(* value of the clock `now`.  A nullable numeric column, and an optional  *)
(* numeric column of a statement, is a set: {} is NULL / omitted, {v} is  *)
(* the value v.  DECIMAL(5,2) is stored as an integer number of           *)
(* hundredths (25.00 is 2500).                                             *)
(***************************************************************************)
EXTENDS Integers, Sequences, FiniteSets, TLC

VARIABLES
    auth_users,        \* ids of the rows of auth.users
    books,             \* ids of the rows of books
    reading_progress,  \* the rows of reading_progress
    reading_sessions,  \* the rows of reading_sessions
    now,               \* the clock read by NOW()
    nextId,            \* the next value of gen_random_uuid()
    inflight,          \* reportProgress requests computed but not yet sent to the store
    lastOp,            \* the last statement or operation and what it returned
    bookForm,          \* the state of a mounted BookForm component
    bookEditor         \* the state of a mounted BookEditor component and of its timers

storeVars == <<auth_users, books, reading_progress, reading_sessions, now, nextId, inflight, lastOp>>
uiVars == <<bookForm, bookEditor>>
vars == <<auth_users, books, reading_progress, reading_sessions, now, nextId, inflight, lastOp,
          bookForm, bookEditor>>
tables == <<reading_progress, reading_sessions>>

NULL == "NULL"
UserIds == {"u1", "u2"}
BookIds == {"b1", "b2"}
\* auth.uid() of a request: a user id, or NULL for an unauthenticated request.
Callers == UserIds \cup {NULL}

\* Bounds of the model.
MaxTime == 2
MaxSessionTime == 3
MaxReports == 3
MaxInflight == 2

(***************************************************************************)
(* Column types and defaults.                                              *)
(***************************************************************************)

\* A value of an optional column, or the column's DEFAULT when it is omitted.
OrDefault(col, dflt) == IF col = {} THEN dflt ELSE CHOOSE v \in col : TRUE

\* The value a statement gives for column `name`: {} when the statement does not name it.
Col(p, name) == IF name \in DOMAIN p THEN p[name] ELSE {}

Abs(x) == IF x < 0 THEN -x ELSE x

\* Mutant of DecimalCoerce: the column declared with scale 0 (whole percent).
DecimalCoerceScale0(num, den) ==
    {100 * (IF num >= 0 THEN (2 * num + den) \div (2 * den)
                        ELSE -((2 * (-num) + den) \div (2 * den)))}

\* The rational num/den (den > 0) rounded to two fractional digits, ties away from
\* zero; the result in hundredths.
DecimalRound(num, den) ==
    IF num >= 0 THEN (2 * 100 * num + den) \div (2 * den)
                ELSE -((2 * 100 * (-num) + den) \div (2 * den))

\* progress DECIMAL(5,2): the value assigned to the column is rounded to scale 2 and must
\* then fit in precision 5, below 1000 in absolute value; a value that does not fit
\* raises numeric field overflow and the column gets no value.
DecimalCoerce(num, den) ==
    LET v == DecimalRound(num, den) IN IF Abs(v) < 100000 THEN {v} ELSE {}

\* What a statement's progress column is coerced to: the DEFAULT 0 when it is omitted.
ProgressValue(col) == LET q == OrDefault(col, <<0, 1>>) IN DecimalCoerce(q[1], q[2])

(***************************************************************************)
(* Row-level security policies.  `uid` is auth.uid(); an SQL comparison   *)
(* with NULL is not true, so a NULL on either side fails the policy.      *)
(***************************************************************************)

ProgressSelectPolicy(uid, user_id) == uid # NULL /\ user_id # NULL /\ uid = user_id

\* Mutant of ProgressUpdatePolicy: the policy checks authentication only.
ProgressUpdatePolicyAnyUser(uid, user_id) == uid # NULL

ProgressUpdatePolicy(uid, user_id) == uid # NULL /\ user_id # NULL /\ uid = user_id

\* Mutant of ProgressInsertPolicy: the policy checks authentication only.
ProgressInsertPolicyAnyUser(uid, user_id) == uid # NULL

ProgressInsertPolicy(uid, user_id) == uid # NULL /\ user_id # NULL /\ uid = user_id

SessionSelectPolicy(uid, user_id) == uid # NULL /\ user_id # NULL /\ uid = user_id

\* Mutant of SessionUpdatePolicy: the comparison inverted.
SessionUpdatePolicyInverted(uid, user_id) == uid # NULL /\ user_id # NULL /\ uid # user_id

SessionUpdatePolicy(uid, user_id) == uid # NULL /\ user_id # NULL /\ uid = user_id

\* Mutant of SessionInsertPolicy: the policy checks authentication only.
SessionInsertPolicyAnyUser(uid, user_id) == uid # NULL

SessionInsertPolicy(uid, user_id) == uid # NULL /\ user_id # NULL /\ uid = user_id

\* Mutant of ProgressDeletePolicy: a FOR DELETE policy like the other three.
ProgressDeletePolicyOwner(uid, user_id) == uid # NULL /\ user_id # NULL /\ uid = user_id

\* Row-level security is enabled on both tables and no policy is declared FOR DELETE:
\* a DELETE sees no row.
ProgressDeletePolicy(uid, user_id) == FALSE

SessionDeletePolicy(uid, user_id) == FALSE

(***************************************************************************)
(* Constraints.                                                            *)
(***************************************************************************)

\* Mutant of UniqueConflicts: the constraint missing, nothing ever conflicts.
UniqueConflictsNone(rows, id, user_id, book_id) == {}

\* Mutant of UniqueConflicts: the constraint declared on user_id alone.
UniqueConflictsUserOnly(rows, id, user_id, book_id) ==
    {r \in rows : r.id # id /\ user_id # NULL /\ r.user_id = user_id}

\* UNIQUE(user_id, book_id): the rows other than `id` that hold the same pair.  NULLs
\* are distinct from each other, so a pair with a NULL conflicts with nothing.
UniqueConflicts(rows, id, user_id, book_id) ==
    {r \in rows : /\ r.id # id
                  /\ user_id # NULL /\ book_id # NULL
                  /\ r.user_id = user_id /\ r.book_id = book_id}

\* Mutant of ForeignKeysHold: book_id declared without REFERENCES books(id).
ForeignKeysHoldUserOnly(user_id, book_id) == user_id = NULL \/ user_id \in auth_users

\* REFERENCES auth.users(id) / books(id): a non-NULL reference names an existing row.
ForeignKeysHold(user_id, book_id) ==
    /\ user_id = NULL \/ user_id \in auth_users
    /\ book_id = NULL \/ book_id \in books

\* ON DELETE CASCADE of user_id: what is left of both tables once user u is deleted.
CascadeUser(u) ==
    [progress |-> {r \in reading_progress : r.user_id # u},
     sessions |-> {r \in reading_sessions : r.user_id # u}]

\* ON DELETE CASCADE of book_id: what is left of both tables once book b is deleted.
CascadeBook(b) ==
    [progress |-> {r \in reading_progress : r.book_id # b},
     sessions |-> {r \in reading_sessions : r.book_id # b}]

\* Mutant of UpdatedAtTrigger: the trigger function stamps created_at as well.
UpdatedAtTriggerAlsoCreated(new) == [new EXCEPT !.updated_at = now, !.created_at = now]

\* update_updated_at_column(), BEFORE UPDATE FOR EACH ROW on both tables.
UpdatedAtTrigger(new) == [new EXCEPT !.updated_at = now]

(***************************************************************************)
(* What a statement returns.                                               *)
(***************************************************************************)

\* A failed statement: the error, who sent it, the owner it names and the row it addresses.
Failed(op, err, caller, user, id, args) ==
    [op |-> op, result |-> err, caller |-> caller, user |-> user, book |-> NULL,
     id |-> id, args |-> args, raced |-> FALSE]

\* A statement that took effect on the row `id`.
Done(op, caller, user, book, id, args) ==
    [op |-> op, result |-> "ok", caller |-> caller, user |-> user, book |-> book,
     id |-> id, args |-> args, raced |-> FALSE]

(***************************************************************************)
(* SQL statements on reading_progress, as an authenticated or anonymous   *)
(* request runs them.  A statement checks, in the store's order: the      *)
(* row-level policy, NOT NULL, the uniqueness constraint, the foreign     *)
(* keys.  The values of a statement are coerced to the types of their     *)
(* columns before any of these.  A statement that fails changes nothing.  *)
(***************************************************************************)

\* The row an INSERT builds from the columns it supplies and the column defaults.
NewProgressRow(p) ==
    [id |-> nextId,
     user_id |-> p.user_id,
     book_id |-> p.book_id,
     current_page |-> OrDefault(p.current_page, 0),
     total_pages |-> OrDefault(p.total_pages, 0),
     progress |-> OrDefault(ProgressValue(p.progress), 0),
     last_read_at |-> OrDefault(Col(p, "last_read_at"), now),
     created_at |-> OrDefault(Col(p, "created_at"), now),
     updated_at |-> OrDefault(Col(p, "updated_at"), now)]

InsertProgressResult(uid, p) ==
    IF ProgressValue(p.progress) = {} THEN "NumericOverflow"
    ELSE IF ~ProgressInsertPolicy(uid, p.user_id) THEN "AuthorizationError"
    ELSE IF p.total_pages = {} THEN "ConstraintViolation"
    ELSE IF UniqueConflicts(reading_progress, nextId, p.user_id, p.book_id) # {}
         THEN "ConstraintViolation"
    ELSE IF ~ForeignKeysHold(p.user_id, p.book_id) THEN "ReferenceError"
    ELSE "ok"

\* INSERT INTO reading_progress (...) VALUES (...), sent by a request whose auth.uid() is uid.
InsertProgress(uid, p) ==
    /\ LET res == InsertProgressResult(uid, p) IN
       IF res = "ok"
       THEN /\ reading_progress' = reading_progress \cup {NewProgressRow(p)}
            /\ nextId' = nextId + 1
            /\ now' = now + 1
            /\ lastOp' = Done("InsertProgress", uid, p.user_id, p.book_id, nextId, <<>>)
       ELSE /\ UNCHANGED <<reading_progress, nextId, now>>
            /\ lastOp' = Failed("InsertProgress", res, uid, p.user_id, 0, <<>>)
    /\ UNCHANGED <<auth_users, books, reading_sessions, inflight>>

\* The stored user_id of the row `id` (no value when there is no such row).
OwnersOf(rows, id) == {r.user_id : r \in {x \in rows : x.id = id}}

\* The row an UPDATE ... SET makes of `old`: the assigned columns replaced.
SetProgressColumns(old, s) ==
    [old EXCEPT !.user_id = OrDefault(s.user_id, old.user_id),
                !.book_id = OrDefault(s.book_id, old.book_id),
                !.current_page = OrDefault(s.current_page, old.current_page),
                !.total_pages = OrDefault(s.total_pages, old.total_pages),
                !.progress = IF s.progress = {} THEN old.progress
                             ELSE OrDefault(ProgressValue(s.progress), old.progress),
                !.last_read_at = OrDefault(Col(s, "last_read_at"), old.last_read_at),
                !.created_at = OrDefault(Col(s, "created_at"), old.created_at),
                !.updated_at = OrDefault(Col(s, "updated_at"), old.updated_at)]

\* The rows of reading_progress an UPDATE ... WHERE id = id reaches: the policy's USING
\* clause hides every other row from the statement.
ProgressUpdateTargets(uid, id) ==
    {r \in reading_progress : r.id = id /\ ProgressUpdatePolicy(uid, r.user_id)}

\* The policy has no WITH CHECK clause, so its USING expression is also checked on the
\* row as updated.
UpdateProgressResult(uid, id, s) ==
    IF ProgressValue(s.progress) = {} THEN "NumericOverflow"
    ELSE IF ProgressUpdateTargets(uid, id) = {} THEN "NoRows"
    ELSE LET old == CHOOSE r \in ProgressUpdateTargets(uid, id) : TRUE
             new == UpdatedAtTrigger(SetProgressColumns(old, s))
         IN IF ~ProgressUpdatePolicy(uid, new.user_id) THEN "AuthorizationError"
            ELSE IF UniqueConflicts(reading_progress, id, new.user_id, new.book_id) # {}
                 THEN "ConstraintViolation"
            ELSE IF ~ForeignKeysHold(new.user_id, new.book_id) THEN "ReferenceError"
            ELSE "ok"

\* UPDATE reading_progress SET ... WHERE id = id, sent by a request whose auth.uid() is uid.
UpdateProgress(uid, id, s) ==
    /\ LET res == UpdateProgressResult(uid, id, s) IN
       IF res = "ok"
       THEN LET old == CHOOSE r \in ProgressUpdateTargets(uid, id) : TRUE
                new == UpdatedAtTrigger(SetProgressColumns(old, s))
            IN /\ reading_progress' = (reading_progress \ {old}) \cup {new}
               /\ now' = now + 1
               /\ lastOp' = Done("UpdateProgress", uid, new.user_id, new.book_id, id,
                                 <<s.user_id, OwnersOf(reading_progress, id)>>)
       ELSE /\ UNCHANGED <<reading_progress, now>>
            /\ lastOp' = Failed("UpdateProgress", res, uid, NULL, id,
                                <<s.user_id, OwnersOf(reading_progress, id)>>)
    /\ UNCHANGED <<auth_users, books, reading_sessions, nextId, inflight>>

\* DELETE FROM reading_progress WHERE id = id, sent by a request whose auth.uid() is uid.
DeleteProgress(uid, id) ==
    LET targets == {r \in reading_progress : r.id = id /\ ProgressDeletePolicy(uid, r.user_id)}
    IN /\ reading_progress' = reading_progress \ targets
       /\ lastOp' = IF targets = {}
                    THEN Failed("DeleteProgress", "NoRows", uid, NULL, id, <<>>)
                    ELSE Done("DeleteProgress", uid, NULL, NULL, id, <<>>)
       /\ UNCHANGED <<auth_users, books, reading_sessions, now, nextId, inflight>>

\* INSERT ... ON CONFLICT (user_id, book_id) DO UPDATE SET current_page, total_pages,
\* progress, last_read_at: the atomic upsert keyed on the uniqueness constraint.  The
\* proposed row passes the INSERT policy and NOT NULL first; a conflicting row is then
\* updated under the UPDATE policy, else the row is inserted.
UpsertProgressResult(uid, p) ==
    LET conflicts == UniqueConflicts(reading_progress, nextId, p.user_id, p.book_id)
        old == CHOOSE r \in conflicts : TRUE
    IN IF ProgressValue(p.progress) = {} THEN "NumericOverflow"
       ELSE IF ~ProgressInsertPolicy(uid, p.user_id) THEN "AuthorizationError"
       ELSE IF p.total_pages = {} THEN "ConstraintViolation"
       ELSE IF conflicts # {}
            THEN IF ProgressUpdatePolicy(uid, old.user_id) THEN "updated"
                 ELSE "AuthorizationError"
       ELSE IF ~ForeignKeysHold(p.user_id, p.book_id) THEN "ReferenceError"
       ELSE "inserted"

UpsertProgress(op, uid, p, args, raced) ==
    LET conflicts == UniqueConflicts(reading_progress, nextId, p.user_id, p.book_id)
        old == CHOOSE r \in conflicts : TRUE
        new == UpdatedAtTrigger(
                   [old EXCEPT !.current_page = OrDefault(p.current_page, 0),
                               !.total_pages = OrDefault(p.total_pages, 0),
                               !.progress = OrDefault(ProgressValue(p.progress), 0),
                               !.last_read_at = now])
        res == UpsertProgressResult(uid, p)
    IN CASE res = "updated" ->
                 /\ reading_progress' = (reading_progress \ {old}) \cup {new}
                 /\ now' = now + 1
                 /\ lastOp' = [Done(op, uid, p.user_id, p.book_id, old.id, args)
                                  EXCEPT !.raced = raced]
                 /\ UNCHANGED nextId
            [] res = "inserted" ->
                 /\ reading_progress' = reading_progress \cup {NewProgressRow(p)}
                 /\ nextId' = nextId + 1
                 /\ now' = now + 1
                 /\ lastOp' = [Done(op, uid, p.user_id, p.book_id, nextId, args)
                                  EXCEPT !.raced = raced]
            [] OTHER ->
                 /\ UNCHANGED <<reading_progress, nextId, now>>
                 /\ lastOp' = Failed(op, res, NULL, NULL, 0, <<>>)

(***************************************************************************)
(* SQL statements on reading_sessions.                                     *)
(***************************************************************************)

NewSessionRow(p) ==
    [id |-> nextId,
     user_id |-> p.user_id,
     book_id |-> p.book_id,
     start_time |-> OrDefault(p.start_time, 0),
     end_time |-> p.end_time,
     pages_read |-> OrDefault(p.pages_read, 0),
     duration |-> OrDefault(p.duration, 0),
     created_at |-> OrDefault(Col(p, "created_at"), now),
     updated_at |-> OrDefault(Col(p, "updated_at"), now)]

\* Mutant of InsertSessionResult: reading_sessions declared with UNIQUE(user_id, book_id).
InsertSessionResultOnePerPair(uid, p) ==
    IF ~SessionInsertPolicy(uid, p.user_id) THEN "AuthorizationError"
    ELSE IF p.start_time = {} THEN "ConstraintViolation"
    ELSE IF UniqueConflicts(reading_sessions, nextId, p.user_id, p.book_id) # {}
         THEN "ConstraintViolation"
    ELSE IF ~ForeignKeysHold(p.user_id, p.book_id) THEN "ReferenceError"
    ELSE "ok"

\* reading_sessions has no uniqueness constraint; start_time is NOT NULL with no default.
InsertSessionResult(uid, p) ==
    IF ~SessionInsertPolicy(uid, p.user_id) THEN "AuthorizationError"
    ELSE IF p.start_time = {} THEN "ConstraintViolation"
    ELSE IF ~ForeignKeysHold(p.user_id, p.book_id) THEN "ReferenceError"
    ELSE "ok"

\* INSERT INTO reading_sessions (...) VALUES (...), reported as operation `op`.
InsertSessionAs(op, uid, p) ==
    /\ LET res == InsertSessionResult(uid, p) IN
       IF res = "ok"
       THEN /\ reading_sessions' = reading_sessions \cup {NewSessionRow(p)}
            /\ nextId' = nextId + 1
            /\ now' = now + 1
            /\ lastOp' = Done(op, uid, p.user_id, p.book_id, nextId, <<>>)
       ELSE /\ UNCHANGED <<reading_sessions, nextId, now>>
            /\ lastOp' = Failed(op, res, uid, p.user_id, 0, <<>>)
    /\ UNCHANGED <<auth_users, books, reading_progress, inflight>>

InsertSession(uid, p) == InsertSessionAs("InsertSession", uid, p)

SetSessionColumns(old, s) ==
    [old EXCEPT !.user_id = OrDefault(s.user_id, old.user_id),
                !.book_id = OrDefault(s.book_id, old.book_id),
                !.end_time = IF s.end_time = {} THEN old.end_time ELSE s.end_time,
                !.pages_read = OrDefault(s.pages_read, old.pages_read),
                !.duration = OrDefault(s.duration, old.duration),
                !.start_time = OrDefault(Col(s, "start_time"), old.start_time),
                !.created_at = OrDefault(Col(s, "created_at"), old.created_at),
                !.updated_at = OrDefault(Col(s, "updated_at"), old.updated_at)]

SessionUpdateTargets(uid, id) ==
    {r \in reading_sessions : r.id = id /\ SessionUpdatePolicy(uid, r.user_id)}

UpdateSessionResult(uid, id, s) ==
    IF SessionUpdateTargets(uid, id) = {} THEN "NoRows"
    ELSE LET old == CHOOSE r \in SessionUpdateTargets(uid, id) : TRUE
             new == UpdatedAtTrigger(SetSessionColumns(old, s))
         IN IF ~SessionUpdatePolicy(uid, new.user_id) THEN "AuthorizationError"
            ELSE IF ~ForeignKeysHold(new.user_id, new.book_id) THEN "ReferenceError"
            ELSE "ok"

\* UPDATE reading_sessions SET ... WHERE id = id, reported as operation `op`.
UpdateSessionAs(op, uid, id, s, args) ==
    /\ LET res == UpdateSessionResult(uid, id, s) IN
       IF res = "ok"
       THEN LET old == CHOOSE r \in SessionUpdateTargets(uid, id) : TRUE
                new == UpdatedAtTrigger(SetSessionColumns(old, s))
            IN /\ reading_sessions' = (reading_sessions \ {old}) \cup {new}
               /\ now' = now + 1
               /\ lastOp' = Done(op, uid, new.user_id, new.book_id, id, args)
       ELSE /\ UNCHANGED <<reading_sessions, now>>
            /\ lastOp' = Failed(op, res, uid, NULL, id, args)
    /\ UNCHANGED <<auth_users, books, reading_progress, nextId, inflight>>

UpdateSession(uid, id, s) ==
    UpdateSessionAs("UpdateSession", uid, id, s, <<s.user_id, OwnersOf(reading_sessions, id)>>)

\* DELETE FROM reading_sessions WHERE id = id, sent by a request whose auth.uid() is uid.
DeleteSession(uid, id) ==
    LET targets == {r \in reading_sessions : r.id = id /\ SessionDeletePolicy(uid, r.user_id)}
    IN /\ reading_sessions' = reading_sessions \ targets
       /\ lastOp' = IF targets = {}
                    THEN Failed("DeleteSession", "NoRows", uid, NULL, id, <<>>)
                    ELSE Done("DeleteSession", uid, NULL, NULL, id, <<>>)
       /\ UNCHANGED <<auth_users, books, reading_progress, now, nextId, inflight>>

(***************************************************************************)
(* Deleting a referenced row.                                              *)
(***************************************************************************)

\* DELETE FROM auth.users WHERE id = u, with its cascades.
DeleteUser(u) ==
    /\ u \in auth_users
    /\ auth_users' = auth_users \ {u}
    /\ reading_progress' = CascadeUser(u).progress
    /\ reading_sessions' = CascadeUser(u).sessions
    /\ lastOp' = Done("DeleteUser", NULL, u, NULL, 0, <<>>)
    /\ UNCHANGED <<books, now, nextId, inflight>>

\* DELETE FROM books WHERE id = b, with its cascades.
DeleteBook(b) ==
    /\ b \in books
    /\ books' = books \ {b}
    /\ reading_progress' = CascadeBook(b).progress
    /\ reading_sessions' = CascadeBook(b).sessions
    /\ lastOp' = Done("DeleteBook", NULL, NULL, b, 0, <<>>)
    /\ UNCHANGED <<auth_users, now, nextId, inflight>>

(***************************************************************************)
(* Queries.  A SELECT changes nothing, so a query is an operator on the   *)
(* state.  The only control of reads in the migration is the pair of      *)
(* SELECT policies: a SELECT returns the rows its WHERE clause selects    *)
(* among those the policy shows to the caller and raises no error for the *)
(* rows the policy hides.                                                  *)
(***************************************************************************)

VisibleProgress(uid) == {r \in reading_progress : ProgressSelectPolicy(uid, r.user_id)}

VisibleSessions(uid) == {r \in reading_sessions : SessionSelectPolicy(uid, r.user_id)}

\* The comparison x = y of a WHERE clause: true of no row when either side is NULL.
SqlEquals(x, y) == x # NULL /\ y # NULL /\ x = y

\* SELECT * FROM reading_progress WHERE user_id = u AND book_id = b, sent by a request
\* whose auth.uid() is uid: the rows returned.
SelectProgress(uid, u, b) ==
    {r \in VisibleProgress(uid) : SqlEquals(r.user_id, u) /\ SqlEquals(r.book_id, b)}

\* SELECT * FROM reading_progress WHERE user_id = u.
SelectProgressOf(uid, u) == {r \in VisibleProgress(uid) : SqlEquals(r.user_id, u)}

\* SELECT * FROM reading_sessions WHERE user_id = u AND book_id = b.
SelectSessions(uid, u, b) ==
    {r \in VisibleSessions(uid) : SqlEquals(r.user_id, u) /\ SqlEquals(r.book_id, b)}

\* The entry points of the reads, each one SELECT of the caller: the migration holds no
\* other check of the caller, so an entry point reports what its statement returns.
\* getProgress reports the row, or not found when the statement returns none.
GetProgress(uid, u, b) ==
    LET found == SelectProgress(uid, u, b)
    IN [result |-> IF found = {} THEN "NotFound" ELSE "ok", rows |-> found]

\* listProgress reports the rows.
ListProgress(uid, u) == [result |-> "ok", rows |-> SelectProgressOf(uid, u)]

\* The sequences that hold each row of `rows` once, in nondecreasing created_at, the
\* column the schema keeps of the creation of a row and indexes for chronological
\* queries; rows with equal created_at come in either order.
RECURSIVE OrderedByCreatedAt(_)
OrderedByCreatedAt(rows) ==
    IF rows = {} THEN {<<>>}
    ELSE UNION {{<<r>> \o rest : rest \in OrderedByCreatedAt(rows \ {r})} :
                r \in {x \in rows : \A y \in rows : x.created_at <= y.created_at}}

\* listSessions reports the rows in the order of created_at.
ListSessions(uid, u, b) ==
    [result |-> "ok",
     rows |-> SelectSessions(uid, u, b),
     listings |-> OrderedByCreatedAt(SelectSessions(uid, u, b))]

(***************************************************************************)
(* The data-access operations: reportProgress (progress reconciliation)   *)
(* and openSession / closeSession (session recording), each one request   *)
(* of a caller whose authenticated identity is auth.uid() = caller.        *)
(***************************************************************************)

\* current_page clamped to [0, total_pages].
ClampPage(cp, tp) == IF cp < 0 THEN 0 ELSE IF cp > tp THEN tp ELSE cp

\* round(cp / tp * 100, 2) clamped to [0, 100], in hundredths (tp > 0, cp >= 0).
ProgressPercent(cp, tp) ==
    LET h == (2 * 10000 * cp + tp) \div (2 * tp)
    IN IF h > 10000 THEN 10000 ELSE h

\* Mutant of ReportValidation: no validation.
ReportValidationNone(cp, tp, strict) == "ok"

\* Malformed input is rejected before any store access: a negative page count, and in
\* strict mode a total_pages that is 0 or missing.
ReportValidation(cp, tp, strict) ==
    IF cp < 0 \/ OrDefault(tp, 0) < 0 THEN "ValidationError"
    ELSE IF strict /\ OrDefault(tp, 0) = 0 THEN "ValidationError"
    ELSE "ok"

\* The row reportProgress(u, b, cp, tp) sends to the store; progress is 0 when
\* total_pages is 0 or missing.
ReportPayload(u, b, cp, tp) ==
    LET t == OrDefault(tp, 0)
        c == IF tp = {} THEN cp ELSE ClampPage(cp, t)
    IN [user_id |-> u,
        book_id |-> b,
        current_page |-> {c},
        total_pages |-> tp,
        progress |-> {<<IF t = 0 THEN 0 ELSE ProgressPercent(c, t), 100>>}]

\* reportProgress as one request: validation, then the upsert.
ReportProgress(caller, u, b, cp, tp, strict) ==
    /\ inflight = {}
    /\ IF ReportValidation(cp, tp, strict) # "ok"
       THEN /\ lastOp' = Failed("ReportProgress", ReportValidation(cp, tp, strict),
                                NULL, NULL, 0, <<>>)
            /\ UNCHANGED <<reading_progress, nextId, now>>
       ELSE UpsertProgress("ReportProgress", caller, ReportPayload(u, b, cp, tp),
                           <<cp, OrDefault(tp, 0)>>, FALSE)
    /\ UNCHANGED <<auth_users, books, reading_sessions, inflight>>

\* Two requests race when they report different page counts for the same pair while
\* both are in flight.
Races(r1, r2) ==
    /\ r1.payload.user_id = r2.payload.user_id
    /\ r1.payload.book_id = r2.payload.book_id
    /\ r1.args # r2.args

\* reportProgress of concurrent requests, first half: the request is validated and its
\* row computed; nothing has reached the store.
ReportBegin(caller, u, b, cp, tp, strict) ==
    /\ Cardinality(inflight) < MaxInflight
    /\ ReportValidation(cp, tp, strict) = "ok"
    /\ LET req == [caller |-> caller, payload |-> ReportPayload(u, b, cp, tp),
                   args |-> <<cp, OrDefault(tp, 0)>>, raced |-> FALSE]
       IN /\ \A r \in inflight : r.payload # req.payload \/ r.args # req.args
          /\ inflight' = {[r EXCEPT !.raced = r.raced \/ Races(r, req)] : r \in inflight}
                         \cup {[req EXCEPT !.raced = \E r \in inflight : Races(r, req)]}
    /\ UNCHANGED <<auth_users, books, reading_progress, reading_sessions, now, nextId, lastOp>>

\* Second half: the request's upsert commits.  Requests in flight commit in any order.
ReportCommit(req) ==
    /\ req \in inflight
    /\ inflight' = inflight \ {req}
    /\ UpsertProgress("ReportProgress", req.caller, req.payload, req.args, req.raced)
    /\ UNCHANGED <<auth_users, books, reading_sessions>>

\* openSession: a row with start_time = now, end_time = NULL, pages_read = 0, duration = 0.
OpenColumns(u, b) ==
    [user_id |-> u, book_id |-> b, start_time |-> {now}, end_time |-> {},
     pages_read |-> {0}, duration |-> {0}]

OpenSession(caller, u, b) == InsertSessionAs("OpenSession", caller, OpenColumns(u, b))

\* What closeSession assigns to the session `id`: end_time = now, pages_read = n and
\* duration = end_time - start_time.
CloseColumns(id, n) ==
    LET started == {r.start_time : r \in {x \in reading_sessions : x.id = id}}
    IN [user_id |-> {}, book_id |-> {}, end_time |-> {now}, pages_read |-> {n},
        duration |-> {now - OrDefault(started, now)}]

\* closeSession: a negative pages_read is rejected before any store access.
CloseSession(caller, id, n) ==
    IF n < 0
    THEN /\ lastOp' = Failed("CloseSession", "ValidationError", caller, NULL, id, <<n>>)
         /\ UNCHANGED <<auth_users, books, reading_progress, reading_sessions, now, nextId,
                        inflight>>
    ELSE UpdateSessionAs("CloseSession", caller, id, CloseColumns(id, n), <<n>>)

(***************************************************************************)
(* The inputs of the model.                                                *)
(***************************************************************************)

UserRefs == UserIds \cup {NULL}

\* The owner and book references a raw statement names: each user with a book and with
\* no book, and no user.
InsertRefs == (UserIds \X {"b1", NULL}) \cup {<<NULL, "b1">>}

\* INSERT INTO reading_progress: the references above with total_pages = 2, an
\* over-range row (page 3 of 2, 150.00 %), and a row without total_pages.
ProgressInserts ==
    {[user_id |-> x[1], book_id |-> x[2], current_page |-> {}, total_pages |-> {2},
      progress |-> {}] : x \in InsertRefs}
    \cup {[user_id |-> u, book_id |-> "b1", current_page |-> {3}, total_pages |-> {2},
           progress |-> {<<150, 1>>}] : u \in UserIds}
    \cup {[user_id |-> u, book_id |-> "b1", current_page |-> {}, total_pages |-> {},
           progress |-> {}] : u \in UserIds}

\* UPDATE reading_progress SET <one column>.
ProgressUpdates ==
    {[user_id |-> {u}, book_id |-> {}, current_page |-> {}, total_pages |-> {},
      progress |-> {}] : u \in UserRefs}
    \cup {[user_id |-> {}, book_id |-> {b}, current_page |-> {}, total_pages |-> {},
           progress |-> {}] : b \in {"b2", NULL}}
    \cup {[user_id |-> {}, book_id |-> {}, current_page |-> {3}, total_pages |-> {},
           progress |-> {}]}

\* INSERT INTO reading_sessions: the references above, and a row without start_time.
SessionInserts ==
    {[user_id |-> x[1], book_id |-> x[2], start_time |-> {now}, end_time |-> {},
      pages_read |-> {}, duration |-> {}] : x \in InsertRefs}
    \cup {[user_id |-> u, book_id |-> "b1", start_time |-> {}, end_time |-> {},
           pages_read |-> {}, duration |-> {}] : u \in UserIds}

\* UPDATE reading_sessions SET <one column>.
SessionUpdates ==
    {[user_id |-> {u}, book_id |-> {}, end_time |-> {}, pages_read |-> {},
      duration |-> {}] : u \in UserRefs}
    \cup {[user_id |-> {}, book_id |-> {b}, end_time |-> {}, pages_read |-> {},
           duration |-> {}] : b \in {"b2", NULL}}

\* The page counts reportProgress is called with.
ReportPages == {-1, 1, 3}
ReportTotals == {{0}, {2}}
StrictModes(tp) == IF OrDefault(tp, 0) = 0 THEN BOOLEAN ELSE {FALSE}
ClosePages == {-1, 10}

ProgressIds == {r.id : r \in reading_progress}
SessionIds == {r.id : r \in reading_sessions}

(***************************************************************************)
(* BookForm: the tag selection and the submit.  A string is the sequence   *)
(* of its UTF-16 code units; a File | null state is TRUE when a file is    *)
(* chosen.                                                                 *)
(* React runs a handler and the render it causes before the next event, so *)
(* an action is the handler followed by that render.                       *)
(***************************************************************************)

\* Array.prototype.includes and the set of elements of an array.
Includes(s, x) == \E i \in 1..Len(s) : s[i] = x
Elements(s) == {s[i] : i \in 1..Len(s)}

\* The white space of String.prototype.trim and of \s, as code units: tab, line feed,
\* vertical tab, form feed, carriage return, space, no-break space, U+1680, U+2000 to
\* U+200A, U+2028, U+2029, U+202F, U+205F, U+3000 and U+FEFF.
WhiteSpace ==
    {9, 10, 11, 12, 13, 32, 160, 5760} \cup (8192..8202)
    \cup {8232, 8233, 8239, 8287, 12288, 65279}
IsWhiteSpace(c) == c \in WhiteSpace

\* String.prototype.trim removes the white space at both ends.
RECURSIVE TrimStart(_)
TrimStart(s) == IF s # <<>> /\ IsWhiteSpace(Head(s)) THEN TrimStart(Tail(s)) ELSE s
RECURSIVE TrimEnd(_)
TrimEnd(s) ==
    IF s # <<>> /\ IsWhiteSpace(s[Len(s)]) THEN TrimEnd(SubSeq(s, 1, Len(s) - 1)) ELSE s
\* Mutant of Trim: the input taken as typed.
TrimNone(s) == s
Trim(s) == TrimEnd(TrimStart(s))

\* The ten predefined tags.
availableTags ==
    << <<1605, 1583, 1740, 1585, 1740, 1578, 32, 1586, 1605, 1575, 1606>>,  \* time management
       <<1582, 1608, 1583, 1587, 1575, 1586, 1740>>,  \* self-improvement
       <<1576, 1585, 1606, 1575, 1605, 1607, 8204, 1585, 1740, 1586, 1740>>,  \* planning
       <<1585, 1608, 1575, 1606, 1588, 1606, 1575, 1587, 1740>>,  \* psychology
       <<1605, 1608, 1601, 1602, 1740, 1578>>,  \* success
       <<1575, 1606, 1711, 1740, 1586, 1588, 1740>>,  \* motivational
       <<1705, 1575, 1585, 1570, 1601, 1585, 1740, 1606, 1740>>,  \* entrepreneurship
       <<1605, 1583, 1740, 1585, 1740, 1578, 32, 1605, 1575, 1604, 1740>>,  \* financial management
       <<1585, 1607, 1576, 1585, 1740>>,  \* leadership
       <<1575, 1585, 1578, 1576, 1575, 1591, 1575, 1578>> >>  \* communication

\* What a user types in the new tag input.
NewTagInputs ==
    { <<>>,                 \* nothing
      <<32>>,               \* a space
      <<11>>,               \* a vertical tab
      <<120>>,              \* "x"
      <<9, 120, 10>>,       \* "x" between a tab and a line feed
      <<121, 32, 122>>,     \* "y z"
      <<12288>> \o availableTags[5] }  \* the fifth predefined tag after U+3000

\* The steps of onSubmit that await a call of @/actions/books.
SubmitCalls == <<"uploadBookCover", "uploadBookFile", "addBook", "addBookTags">>

\* The component after its first render.
BookFormInit ==
    [selectedTags |-> <<>>, tags |-> <<>>, newTag |-> <<>>, toast |-> "None",
     coverFile |-> FALSE, bookFile |-> FALSE, isSubmitting |-> FALSE,
     navigated |-> FALSE, submits |-> <<>>]

\* handleTagSelect: the selection with the tag removed when present, appended otherwise.
TagSelect(selectedTags, tag) ==
    IF Includes(selectedTags, tag)
    THEN SelectSeq(selectedTags, LAMBDA t : t # tag)
    ELSE Append(selectedTags, tag)

HandleTagSelect(tag) ==
    /\ LET updatedTags == TagSelect(bookForm.selectedTags, tag)
       IN  bookForm' = [bookForm EXCEPT !.selectedTags = updatedTags,
                                        !.tags = updatedTags]
    /\ UNCHANGED <<storeVars, bookEditor>>

\* The badges that call handleTagSelect: the selected tags and the predefined tags
\* that are not selected.
TagBadges == Elements(bookForm.selectedTags) \cup Elements(availableTags)

\* onChange of the new tag input.
SetNewTag(value) ==
    /\ bookForm' = [bookForm EXCEPT !.newTag = value]
    /\ UNCHANGED <<storeVars, bookEditor>>

\* handleAddNewTag: the test of the trimmed input, and the handler.
AddNewTagAccepts(trimmedTag, selectedTags) ==
    /\ trimmedTag # <<>>
    /\ ~Includes(selectedTags, trimmedTag)
    /\ ~Includes(availableTags, trimmedTag)

HandleAddNewTag ==
    /\ LET trimmedTag == Trim(bookForm.newTag)
       IN  IF AddNewTagAccepts(trimmedTag, bookForm.selectedTags)
           THEN LET updatedTags == Append(bookForm.selectedTags, trimmedTag)
                IN  bookForm' = [bookForm EXCEPT !.selectedTags = updatedTags,
                                                 !.tags = updatedTags,
                                                 !.newTag = <<>>]
           ELSE IF trimmedTag = <<>>
                THEN bookForm' = [bookForm EXCEPT !.toast = "TagNameRequired"]
                ELSE bookForm' = [bookForm EXCEPT !.toast = "TagAlreadyAdded"]
    /\ UNCHANGED <<storeVars, bookEditor>>

\* handleCoverUpload and handleBookFileUpload keep a file that passes their checks and
\* show a toast for one that does not, with the title of the error toast of onSubmit;
\* the button on the preview removes the cover.
HandleCoverUpload(accepted) ==
    /\ bookForm' = IF accepted THEN [bookForm EXCEPT !.coverFile = TRUE]
                               ELSE [bookForm EXCEPT !.toast = "Error"]
    /\ UNCHANGED <<storeVars, bookEditor>>

RemoveCover ==
    /\ bookForm.coverFile
    /\ bookForm' = [bookForm EXCEPT !.coverFile = FALSE]
    /\ UNCHANGED <<storeVars, bookEditor>>

HandleBookFileUpload(accepted) ==
    /\ bookForm' = IF accepted THEN [bookForm EXCEPT !.bookFile = TRUE]
                               ELSE [bookForm EXCEPT !.toast = "Error"]
    /\ UNCHANGED <<storeVars, bookEditor>>

\* Mutant of StepAfter: addBookTags awaited without the test of selectedTags.length.
StepAfterAlwaysTags(step, closure) ==
    IF step = "start" /\ closure.coverFile THEN "uploadBookCover"
    ELSE IF step \in {"start", "uploadBookCover"} /\ closure.bookFile THEN "uploadBookFile"
    ELSE IF step \in {"start", "uploadBookCover", "uploadBookFile"} THEN "addBook"
    ELSE IF step = "addBook" THEN "addBookTags"
    ELSE "finish"

\* onSubmit: the awaited call that follows a step, "finish" when none is left.  The
\* function reads coverFile, bookFile and selectedTags of the render it was created in.
StepAfter(step, closure) ==
    IF step = "start" /\ closure.coverFile THEN "uploadBookCover"
    ELSE IF step \in {"start", "uploadBookCover"} /\ closure.bookFile THEN "uploadBookFile"
    ELSE IF step \in {"start", "uploadBookCover", "uploadBookFile"} THEN "addBook"
    ELSE IF step = "addBook" /\ Len(closure.selectedTags) > 0 THEN "addBookTags"
    ELSE "finish"

\* A click on the submit button, which is disabled while isSubmitting as rendered:
\* form.handleSubmit starts the validation of the values and will call the onSubmit of
\* the render of the click.  A submit is recorded with its position, the state onSubmit
\* reads, the calls it has awaited, the toast it has shown and whether it has navigated.
ClickSubmit ==
    /\ ~bookForm.isSubmitting
    /\ LET closure == [coverFile |-> bookForm.coverFile, bookFile |-> bookForm.bookFile,
                       selectedTags |-> bookForm.selectedTags]
           submit == [pc |-> "validate", closure |-> closure, calls |-> <<>>,
                      toast |-> "None", pushed |-> FALSE]
       IN  bookForm' = [bookForm EXCEPT !.submits = Append(bookForm.submits, submit)]
    /\ UNCHANGED <<storeVars, bookEditor>>

\* The validation settles: onSubmit is not called for values that are not valid; for
\* valid ones it sets isSubmitting and runs up to its first await.
ValidationSettles(i, valid) ==
    /\ i \in 1..Len(bookForm.submits)
    /\ bookForm.submits[i].pc = "validate"
    /\ IF valid
       THEN bookForm' = [bookForm EXCEPT
                !.isSubmitting = TRUE,
                !.submits[i].pc = StepAfter("start", bookForm.submits[i].closure)]
       ELSE bookForm' = [bookForm EXCEPT !.submits[i].pc = "invalid"]
    /\ UNCHANGED <<storeVars, bookEditor>>

\* The awaited call of a submit settles.  Fulfilled: the function runs up to its next
\* await, or to its end with the success toast, router.push and the finally block.
\* Rejected: the catch block shows the error toast and the finally block runs.
SubmitCallSettles(i, fulfilled) ==
    /\ i \in 1..Len(bookForm.submits)
    /\ bookForm.submits[i].pc \in Elements(SubmitCalls)
    /\ LET submit == bookForm.submits[i]
           calls == Append(submit.calls, <<submit.pc, fulfilled>>)
           next == StepAfter(submit.pc, submit.closure)
       IN  IF ~fulfilled
           THEN bookForm' = [bookForm EXCEPT
                    !.toast = "Error", !.isSubmitting = FALSE,
                    !.submits[i] = [submit EXCEPT !.calls = calls, !.toast = "Error",
                                                  !.pc = "done"]]
           ELSE IF next = "finish"
                THEN bookForm' = [bookForm EXCEPT
                         !.toast = "Success", !.navigated = TRUE, !.isSubmitting = FALSE,
                         !.submits[i] = [submit EXCEPT !.calls = calls,
                                                       !.toast = "Success",
                                                       !.pushed = TRUE, !.pc = "done"]]
                ELSE bookForm' = [bookForm EXCEPT
                         !.submits[i] = [submit EXCEPT !.calls = calls, !.pc = next]]
    /\ UNCHANGED <<storeVars, bookEditor>>

(***************************************************************************)
(* BookEditor: the auto-save of the editor.  Time is counted in seconds.   *)
(* The callbacks of a render read the state of that render: "bound" holds  *)
(* the state read by onUpdate and handleAutoSave as the editor has them    *)
(* registered.  Whether useEditor registers the callbacks of every render  *)
(* or keeps those of the first one depends on the version of the editor    *)
(* library, so "rebinds" is chosen when the component is mounted.          *)
(***************************************************************************)

\* The delay of the auto-save timer and the words of a page.
AutoSaveDelay == 5
WordsPerPage == 250

\* text.split(/\s+/).filter(Boolean).length: the number of runs of other characters.
WordCount(text) ==
    Cardinality({i \in 1..Len(text) :
                    /\ ~IsWhiteSpace(text[i])
                    /\ (i = 1 \/ IsWhiteSpace(text[i - 1]))})
PageCount(words) == (words + WordsPerPage - 1) \div WordsPerPage

\* The titles and the texts a user types.
Titles == {"", "A"}
EditorTexts == { <<>>, <<120>>, <<120, 11, 121>> }  \* "", "x", "x" vertical tab "y"

\* The state the callbacks of a render read.
Bound(e) == [title |-> e.title, autoSaveTimer |-> e.autoSaveTimer,
             wordCount |-> e.wordCount, pageCount |-> e.pageCount]

\* The component after its first render; timer 0 is the null timer.
BookEditorInit(initialTitle, rebinds) ==
    LET e == [title |-> initialTitle, wordCount |-> 0, pageCount |-> 0,
              autoSaveTimer |-> 0]
    IN  [title |-> initialTitle, text |-> <<>>, wordCount |-> 0, pageCount |-> 0,
         autoSaveTimer |-> 0, bound |-> Bound(e), rebinds |-> rebinds,
         timers |-> {}, nextTimer |-> 1, clock |-> 0, lastUpdate |-> 0,
         requests |-> <<>>, isUploading |-> FALSE, upload |-> "none",
         toast |-> "None"]

\* clearTimeout: the pending timers without the one with this id.
ClearTimeout(timers, id) == {tm \in timers : tm.id # id}

\* The render after a change of state: the cleanup of the effect on autoSaveTimer runs
\* when autoSaveTimer changed, and the callbacks of the new render are registered.
Render(old, new) ==
    LET cleaned == IF new.autoSaveTimer # old.autoSaveTimer /\ old.autoSaveTimer # 0
                   THEN ClearTimeout(new.timers, old.autoSaveTimer)
                   ELSE new.timers
    IN  [new EXCEPT !.timers = cleaned,
                    !.bound = IF new.rebinds THEN Bound(new) ELSE old.bound]

\* onUpdate of the editor after an update that leaves it with this text, and the render
\* that follows.
OnUpdate(e, text) ==
    LET words == WordCount(text)
        kept == IF e.bound.autoSaveTimer # 0
                THEN ClearTimeout(e.timers, e.bound.autoSaveTimer)
                ELSE e.timers
        timer == [id |-> e.nextTimer, due |-> e.clock + AutoSaveDelay,
                  title |-> e.bound.title, wordCount |-> e.bound.wordCount]
    IN  Render(e, [e EXCEPT !.text = text,
                            !.wordCount = words,
                            !.pageCount = PageCount(words),
                            !.timers = kept \cup {timer},
                            !.autoSaveTimer = e.nextTimer,
                            !.nextTimer = e.nextTimer + 1,
                            !.lastUpdate = e.clock])

\* An update of the editor, whether it changes the text or leaves it as it is.
EditorUpdate(text) ==
    /\ bookEditor' = OnUpdate(bookEditor, text)
    /\ UNCHANGED <<storeVars, bookForm>>

\* onChange of the title input, and the render that follows.
SetTitle(value) ==
    /\ value # bookEditor.title
    /\ bookEditor' = Render(bookEditor, [bookEditor EXCEPT !.title = value])
    /\ UNCHANGED <<storeVars, bookForm>>

\* A click on the Save button, disabled while isUploading or while the title or the text is
\* empty: handleSubmit sets isUploading and awaits the upload request.
HandleSubmit ==
    /\ ~bookEditor.isUploading
    /\ bookEditor.title # ""
    /\ bookEditor.text # <<>>
    /\ bookEditor' = Render(bookEditor, [bookEditor EXCEPT !.isUploading = TRUE,
                                                          !.upload = "fetch"])
    /\ UNCHANGED <<storeVars, bookForm>>

\* The upload request settles.  With an ok response handleSubmit goes on to await the
\* body of the response; otherwise the catch block shows the error toast and the finally
\* block resets isUploading.
UploadSettles(ok) ==
    /\ bookEditor.upload = "fetch"
    /\ bookEditor' =
          IF ok
          THEN [bookEditor EXCEPT !.upload = "json"]
          ELSE Render(bookEditor, [bookEditor EXCEPT !.toast = "Error",
                                                     !.isUploading = FALSE,
                                                     !.upload = "none"])
    /\ UNCHANGED <<storeVars, bookForm>>

\* response.json() settles.  With the body parsed handleSubmit shows the success toast
\* and resets the form: the title, the content of the editor, set without an update
\* event, and the counts; otherwise the catch block shows the error toast.  The finally
\* block resets isUploading.
UploadBodySettles(parsed) ==
    /\ bookEditor.upload = "json"
    /\ bookEditor' =
          IF parsed
          THEN Render(bookEditor, [bookEditor EXCEPT !.toast = "Success",
                                                     !.title = "",
                                                     !.text = <<>>,
                                                     !.wordCount = 0,
                                                     !.pageCount = 0,
                                                     !.isUploading = FALSE,
                                                     !.upload = "none"])
          ELSE Render(bookEditor, [bookEditor EXCEPT !.toast = "Error",
                                                     !.isUploading = FALSE,
                                                     !.upload = "none"])
    /\ UNCHANGED <<storeVars, bookForm>>

\* handleAutoSave as the timer holds it: nothing is sent when the text of the editor or
\* the title of the render of the timer is empty.
AutoSaveSends(text, title) == text # <<>> /\ title # ""

HandleAutoSave(e, tm) ==
    IF AutoSaveSends(e.text, tm.title)
    THEN Append(e.requests, [title |-> tm.title, wordCount |-> tm.wordCount,
                             content |-> e.text, at |-> e.clock,
                             lastUpdate |-> e.lastUpdate, shownTitle |-> e.title,
                             pending |-> Cardinality(e.timers)])
    ELSE e.requests

\* A pending timer that is due runs its callback.
TimerFires ==
    /\ \E tm \in bookEditor.timers :
          /\ tm.due <= bookEditor.clock
          /\ bookEditor' = [bookEditor EXCEPT !.timers = bookEditor.timers \ {tm},
                                              !.requests = HandleAutoSave(bookEditor, tm)]
    /\ UNCHANGED <<storeVars, bookForm>>

\* A second passes; a timer that is due runs first.
Tick ==
    /\ \A tm \in bookEditor.timers : tm.due > bookEditor.clock
    /\ bookEditor' = [bookEditor EXCEPT !.clock = bookEditor.clock + 1]
    /\ UNCHANGED <<storeVars, bookForm>>

(***************************************************************************)
(* The store with every statement and operation.                           *)
(***************************************************************************)

InitStore ==
    /\ auth_users = UserIds
    /\ books = BookIds
    /\ reading_progress = {}
    /\ reading_sessions = {}
    /\ now = 0
    /\ nextId = 1
    /\ inflight = {}
    /\ lastOp = Done("None", NULL, NULL, NULL, 0, <<>>)

\* The components are mounted with the default values of their props.
Init ==
    /\ InitStore
    /\ bookForm = BookFormInit
    /\ bookEditor = BookEditorInit("", TRUE)

Next ==
    \/ /\ now < MaxTime
       /\ \E c \in UserIds, u \in UserIds, b \in BookIds, cp \in ReportPages,
             tp \in ReportTotals :
             \E strict \in StrictModes(tp) : ReportProgress(c, u, b, cp, tp, strict)
    \/ /\ now < MaxTime
       /\ \E c \in UserIds, u \in UserIds, b \in BookIds : OpenSession(c, u, b)
    \/ /\ now < MaxTime
       /\ \E c \in UserIds, id \in SessionIds, n \in ClosePages : CloseSession(c, id, n)
    \/ /\ now < MaxTime
       /\ \E c \in Callers, p \in ProgressInserts : InsertProgress(c, p)
    \/ /\ now < MaxTime
       /\ \E c \in Callers, id \in ProgressIds, s \in ProgressUpdates : UpdateProgress(c, id, s)
    \/ /\ now < MaxTime
       /\ \E c \in Callers, p \in SessionInserts : InsertSession(c, p)
    \/ /\ now < MaxTime
       /\ \E c \in Callers, id \in SessionIds, s \in SessionUpdates : UpdateSession(c, id, s)
    \/ \E u \in UserIds : DeleteUser(u)
    \/ \E b \in BookIds : DeleteBook(b)

Spec == Init /\ [][Next /\ UNCHANGED uiVars]_vars

(***************************************************************************)
(* Session recording alone, over a longer time.                            *)
(***************************************************************************)

NextSessions ==
    \/ /\ now < MaxSessionTime
       /\ \E c \in UserIds, u \in UserIds, b \in BookIds : OpenSession(c, u, b)
    \/ /\ now < MaxSessionTime
       /\ \E c \in UserIds, id \in SessionIds, n \in ClosePages : CloseSession(c, id, n)
    \/ /\ now < MaxSessionTime
       /\ \E c \in Callers, p \in SessionInserts : InsertSession(c, p)
    \/ /\ now < MaxSessionTime
       /\ \E c \in Callers, id \in SessionIds, s \in SessionUpdates : UpdateSession(c, id, s)
    \/ \E u \in UserIds : DeleteUser(u)
    \/ \E b \in BookIds : DeleteBook(b)

SpecSessions == Init /\ [][NextSessions /\ UNCHANGED uiVars]_vars

(***************************************************************************)
(* Concurrent reportProgress requests: each request is computed, then its *)
(* upsert commits; the commits of the requests in flight interleave.      *)
(***************************************************************************)

ConcurrentPages == {1, 3}
ConcurrentTotals == {{2}}

NextConcurrent ==
    \/ /\ now + Cardinality(inflight) < MaxReports
       /\ \E c \in UserIds, u \in UserIds, b \in BookIds, cp \in ConcurrentPages,
             tp \in ConcurrentTotals : ReportBegin(c, u, b, cp, tp, FALSE)
    \/ \E req \in inflight : ReportCommit(req)

SpecConcurrent == Init /\ [][NextConcurrent /\ UNCHANGED uiVars]_vars

(***************************************************************************)
(* reportProgress alone, over page counts whose percentage is exact       *)
(* (50 of 200), rounds down (1 of 3), rounds up (2 of 3), is a tie        *)
(* (1 of 32 is 3.125 %) and is over range (250 of 200).                    *)
(***************************************************************************)

PercentPages == {0, 1, 2, 50, 250}
PercentTotals == {{3}, {32}, {200}}

NextPercent ==
    /\ now < MaxReports
    /\ \E u \in {"u1"}, b \in BookIds, cp \in PercentPages, tp \in PercentTotals :
          ReportProgress(u, u, b, cp, tp, FALSE)

SpecPercent == Init /\ [][NextPercent /\ UNCHANGED uiVars]_vars

(***************************************************************************)
(* The statements a client may send to the store directly, with the       *)
(* columns a data-access operation never sets: timestamps of the caller's *)
(* choosing, negative counts, and DELETE.                                  *)
(***************************************************************************)

MaxStatements == 2
\* A timestamp a caller supplies, unlike any value of the clock within the bound.
SuppliedTime == 7

RawProgressInserts ==
    {[user_id |-> u, book_id |-> "b1", current_page |-> {}, total_pages |-> {2},
      progress |-> {}] : u \in UserIds}
    \cup {[user_id |-> u, book_id |-> "b1", current_page |-> {-1}, total_pages |-> {0},
           progress |-> {}] : u \in UserIds}
    \cup {[user_id |-> u, book_id |-> "b1", current_page |-> {}, total_pages |-> {2},
           progress |-> {}, created_at |-> {SuppliedTime}, updated_at |-> {SuppliedTime}] :
           u \in UserIds}
    \cup {[user_id |-> u, book_id |-> "b1", current_page |-> {}, total_pages |-> {},
           progress |-> {}] : u \in UserIds}
    \cup {[user_id |-> "u1", book_id |-> "b1", current_page |-> {}, total_pages |-> {2},
           progress |-> {<<999995, 1000>>}]}

RawProgressUpdates ==
    LET none == [user_id |-> {}, book_id |-> {}, current_page |-> {}, total_pages |-> {},
                 progress |-> {}]
    IN {[none EXCEPT !.current_page = {-1}], [none EXCEPT !.book_id = {"b2"}],
        [none EXCEPT !.user_id = {"u2"}], [none EXCEPT !.progress = {<<-1000, 1>>}]}
       \cup {[user_id |-> {}, book_id |-> {}, current_page |-> {1}, total_pages |-> {},
              progress |-> {}, updated_at |-> {SuppliedTime}],
             [user_id |-> {}, book_id |-> {}, current_page |-> {}, total_pages |-> {},
              progress |-> {}, created_at |-> {SuppliedTime}]}

RawSessionInserts ==
    {[user_id |-> u, book_id |-> "b1", start_time |-> {now}, end_time |-> {},
      pages_read |-> {}, duration |-> {}] : u \in UserIds}
    \cup {[user_id |-> u, book_id |-> "b1", start_time |-> {now}, end_time |-> {now},
           pages_read |-> {-1}, duration |-> {-1}] : u \in UserIds}

RawSessionUpdates ==
    LET none == [user_id |-> {}, book_id |-> {}, end_time |-> {}, pages_read |-> {},
                 duration |-> {}]
    IN {[none EXCEPT !.end_time = {SuppliedTime}, !.pages_read = {5}],
        [none EXCEPT !.book_id = {"b2"}],
        [none EXCEPT !.user_id = {"u2"}]}
       \cup {[user_id |-> {}, book_id |-> {}, end_time |-> {}, pages_read |-> {},
              duration |-> {}, start_time |-> {SuppliedTime}],
             [user_id |-> {}, book_id |-> {}, end_time |-> {}, pages_read |-> {},
              duration |-> {}, created_at |-> {SuppliedTime}]}

NextStatements ==
    \/ /\ now < MaxStatements
       /\ \E c \in UserIds, p \in RawProgressInserts : InsertProgress(c, p)
    \/ /\ now < MaxStatements
       /\ \E c \in UserIds, id \in ProgressIds, s \in RawProgressUpdates : UpdateProgress(c, id, s)
    \/ \E c \in UserIds, id \in ProgressIds : DeleteProgress(c, id)
    \/ /\ now < MaxStatements
       /\ \E c \in UserIds, p \in RawSessionInserts : InsertSession(c, p)
    \/ /\ now < MaxStatements
       /\ \E c \in UserIds, id \in SessionIds, s \in RawSessionUpdates : UpdateSession(c, id, s)
    \/ \E c \in UserIds, id \in SessionIds : DeleteSession(c, id)
    \/ /\ now < MaxStatements
       /\ \E u \in UserIds, b \in BookIds, cp \in {1}, tp \in {{2}} :
             ReportProgress(u, u, b, cp, tp, FALSE)
    \/ /\ now < MaxStatements
       /\ \E u \in UserIds, b \in BookIds : OpenSession(u, u, b)
    \/ /\ now < MaxStatements
       /\ \E c \in UserIds, id \in SessionIds : CloseSession(c, id, 10)
    \/ \E u \in UserIds : DeleteUser(u)
    \/ \E b \in BookIds : DeleteBook(b)

SpecStatements == Init /\ [][NextStatements /\ UNCHANGED uiVars]_vars

(***************************************************************************)
(* The data-access operations alone, with every kind of input: negative   *)
(* pages, total_pages 0 or missing, strict and non-strict mode, foreign   *)
(* callers, and users and books that have been deleted.                    *)
(***************************************************************************)

MaxCalls == 2
CallPages == {-1, 3}
\* reportProgress is called for one book, openSession for both.
CallBooks == {"b1"}
CallTotals == {{}, {0}, {2}}

NextCalls ==
    \/ /\ now < MaxCalls
       /\ \E c \in UserIds, u \in UserIds, b \in CallBooks, cp \in CallPages,
             tp \in CallTotals, strict \in BOOLEAN : ReportProgress(c, u, b, cp, tp, strict)
    \/ /\ now < MaxCalls
       /\ \E c \in UserIds, u \in UserIds, b \in BookIds : OpenSession(c, u, b)
    \/ /\ now < MaxCalls
       /\ \E c \in UserIds, id \in SessionIds, n \in ClosePages : CloseSession(c, id, n)
    \/ \E u \in UserIds : DeleteUser(u)
    \/ \E b \in BookIds : DeleteBook(b)

SpecCalls == Init /\ [][NextCalls /\ UNCHANGED uiVars]_vars

(***************************************************************************)
(* Inserts and updates alone, by authenticated and anonymous callers,     *)
(* naming their own, a foreign and no user_id.                             *)
(***************************************************************************)

MaxWrites == 2

NextWrites ==
    /\ now < MaxWrites
    /\ \/ \E c \in Callers, p \in ProgressInserts : InsertProgress(c, p)
       \/ \E c \in Callers, id \in ProgressIds, s \in ProgressUpdates : UpdateProgress(c, id, s)
       \/ \E c \in Callers, p \in SessionInserts : InsertSession(c, p)
       \/ \E c \in Callers, id \in SessionIds, s \in SessionUpdates : UpdateSession(c, id, s)
       \/ \E c \in UserIds, u \in UserIds, b \in BookIds : OpenSession(c, u, b)
       \/ \E c \in UserIds, u \in UserIds, b \in BookIds, cp \in ConcurrentPages,
             tp \in ConcurrentTotals : ReportProgress(c, u, b, cp, tp, FALSE)

SpecWrites == Init /\ [][NextWrites /\ UNCHANGED uiVars]_vars

(***************************************************************************)
(* Sessions opened and closed through the operations and updated by the   *)
(* statements of their owners, as listSessions sees them.                  *)
(***************************************************************************)

MaxListingTime == 3

NextListings ==
    \/ /\ now < MaxListingTime
       /\ \E u \in UserIds, b \in BookIds : OpenSession(u, u, b)
    \/ /\ now < MaxListingTime
       /\ \E c \in UserIds, id \in SessionIds : CloseSession(c, id, 10)
    \/ /\ now < MaxListingTime
       /\ \E c \in UserIds, id \in SessionIds, s \in RawSessionUpdates : UpdateSession(c, id, s)

SpecListings == Init /\ [][NextListings /\ UNCHANGED uiVars]_vars

(***************************************************************************)
(* BookForm: the tag badges and the new tag input.                         *)
(***************************************************************************)

MaxSelected == 3

NextTags ==
    \/ \E tag \in TagBadges :
          /\ Len(bookForm.selectedTags) < MaxSelected \/ Includes(bookForm.selectedTags, tag)
          /\ HandleTagSelect(tag)
    \/ \E value \in NewTagInputs : SetNewTag(value)
    \/ /\ Len(bookForm.selectedTags) < MaxSelected
                \/ ~AddNewTagAccepts(Trim(bookForm.newTag), bookForm.selectedTags)
       /\ HandleAddNewTag

SpecTags == Init /\ [][NextTags]_vars

(***************************************************************************)
(* BookForm: submits, with the files and the tags changed at any moment.   *)
(***************************************************************************)

MaxSubmits == 2
\* The badge clicked around a submit: the fifth predefined tag.
SubmitTags == { availableTags[5] }

NextSubmit ==
    \/ \E accepted \in BOOLEAN : HandleCoverUpload(accepted)
    \/ RemoveCover
    \/ \E accepted \in BOOLEAN : HandleBookFileUpload(accepted)
    \/ \E tag \in SubmitTags : HandleTagSelect(tag)
    \/ /\ Len(bookForm.submits) < MaxSubmits
       /\ ClickSubmit
    \/ \E i \in 1..MaxSubmits, valid \in BOOLEAN : ValidationSettles(i, valid)
    \/ \E i \in 1..MaxSubmits, fulfilled \in BOOLEAN : SubmitCallSettles(i, fulfilled)

SpecSubmit == Init /\ [][NextSubmit]_vars

(***************************************************************************)
(* BookEditor: typing in the editor and in the title while time passes.    *)
(***************************************************************************)

MaxClock == 6
MaxTimers == 3

InitEditor ==
    /\ InitStore
    /\ bookForm = BookFormInit
    /\ bookEditor \in {BookEditorInit(initialTitle, rebinds) :
                           initialTitle \in Titles, rebinds \in BOOLEAN}

NextEditor ==
    \/ /\ bookEditor.nextTimer <= MaxTimers
       /\ \E text \in EditorTexts : EditorUpdate(text)
    \/ \E value \in Titles : SetTitle(value)
    \/ HandleSubmit
    \/ \E ok \in BOOLEAN : UploadSettles(ok)
    \/ \E parsed \in BOOLEAN : UploadBodySettles(parsed)
    \/ TimerFires
    \/ /\ bookEditor.clock < MaxClock
       /\ Tick

SpecEditor == InitEditor /\ [][NextEditor]_vars

(***************************************************************************)
(* Properties.                                                             *)
(***************************************************************************)

ProgressRowsOf(u, b) == {r \in reading_progress : r.user_id = u /\ r.book_id = b}
SessionRowsOf(u, b) == {r \in reading_sessions : r.user_id = u /\ r.book_id = b}
Reported == lastOp.op = "ReportProgress" /\ lastOp.result = "ok"

\* C1: no state holds two reading_progress rows for the same user and book, and right
\* after a reportProgress that succeeded for a pair the table holds exactly one row for
\* that pair, the one the call returned.
C1_OneRowPerPair ==
    /\ \A u \in UserIds, b \in BookIds : Cardinality(ProgressRowsOf(u, b)) <= 1
    /\ Reported =>
          /\ Cardinality(ProgressRowsOf(lastOp.user, lastOp.book)) = 1
          /\ \A r \in ProgressRowsOf(lastOp.user, lastOp.book) : r.id = lastOp.id

\* A second reportProgress for a pair has updated the row the first one inserted.
C1_Witness ==
    /\ Reported
    /\ \E r \in ProgressRowsOf(lastOp.user, lastOp.book) :
          r.id = lastOp.id /\ r.created_at < r.last_read_at

\* C2: whatever the order in which concurrent reportProgress requests commit, no pair
\* has two rows, no request gets a ConstraintViolation, and after each commit the row
\* of the pair carries the values of the request that committed last.
C2_LastCommitWins ==
    /\ \A u \in UserIds, b \in BookIds : Cardinality(ProgressRowsOf(u, b)) <= 1
    /\ lastOp.result # "ConstraintViolation"
    /\ Reported =>
          \E r \in reading_progress :
             /\ ProgressRowsOf(lastOp.user, lastOp.book) = {r}
             /\ r.id = lastOp.id
             /\ r.current_page = ClampPage(lastOp.args[1], lastOp.args[2])
             /\ r.total_pages = lastOp.args[2]
             /\ 2 * Abs(r.progress * r.total_pages - 10000 * r.current_page) <= r.total_pages

\* Two requests with different page counts for one pair were in flight together and both
\* have committed: the first inserted the row, the last one updated it.
C2_Witness ==
    /\ Reported
    /\ lastOp.raced
    /\ inflight = {}
    /\ \E r \in ProgressRowsOf(lastOp.user, lastOp.book) :
          r.created_at < r.updated_at /\ r.current_page = ClampPage(lastOp.args[1], lastOp.args[2])

\* C3: a caller who asks for the progress or the sessions of another user, who has such
\* rows, receives an AuthorizationError from getProgress, listProgress and listSessions,
\* never a not-found or empty result.
C3_Original ==
    \A a \in UserIds, u \in UserIds, b \in BookIds :
       a # u =>
          /\ ProgressRowsOf(u, b) # {} =>
                /\ GetProgress(a, u, b).result = "AuthorizationError"
                /\ ListProgress(a, u).result = "AuthorizationError"
          /\ SessionRowsOf(u, b) # {} =>
                ListSessions(a, u, b).result = "AuthorizationError"

InsertOps == {"InsertProgress", "InsertSession", "OpenSession"}

\* C4: an INSERT into either table whose user_id is not the caller's authenticated
\* identity fails with AuthorizationError and leaves both tables unchanged; an INSERT
\* that succeeds has stored a row whose user_id is the caller's identity.
C4_InsertOnlyForSelf ==
    [][lastOp'.op \in InsertOps =>
         /\ (lastOp'.caller = NULL \/ lastOp'.user # lastOp'.caller) =>
               (lastOp'.result = "AuthorizationError" /\ UNCHANGED tables)
         /\ lastOp'.result = "ok" =>
               \E r \in (reading_progress' \cup reading_sessions')
                           \ (reading_progress \cup reading_sessions) :
                  r.id = lastOp'.id /\ r.user_id = lastOp'.caller]_vars

\* An authenticated user's INSERT naming another user has been refused.
C4_Witness ==
    /\ lastOp.op \in {"InsertProgress", "InsertSession"}
    /\ lastOp.result = "AuthorizationError"
    /\ lastOp.caller \in UserIds
    /\ lastOp.user \in UserIds
    /\ lastOp.caller # lastOp.user

UpdateOps == {"UpdateProgress", "UpdateSession"}
\* An UPDATE is refused by an error of the policy, or silently reaches no row.
Refused == lastOp.result \in {"AuthorizationError", "NoRows"}
\* Of the last UPDATE: the user_id it assigns ({} when none) and the user_id the row held.
AssignedOwner == lastOp.args[1]
StoredOwner == lastOp.args[2]

\* C5 as stated: an UPDATE of an existing row is permitted exactly when the user_id the
\* row holds before the update is the caller's identity, whatever the payload.
C5_Original ==
    (lastOp.op \in UpdateOps /\ StoredOwner # {}) =>
       (~Refused <=> (lastOp.caller # NULL /\ StoredOwner = {lastOp.caller}))

\* C5 as amended: an UPDATE of an existing row is permitted exactly when the user_id the
\* row holds before the update is the caller's identity and the user_id of the row as
\* updated is the caller's identity too: the payload may not assign another user_id.
C5_UpdateNeedsOwnerBeforeAndAfter ==
    (lastOp.op \in UpdateOps /\ StoredOwner # {}) =>
       (~Refused <=> /\ lastOp.caller # NULL
                     /\ StoredOwner = {lastOp.caller}
                     /\ AssignedOwner \in {{}, {lastOp.caller}})

\* The owner of a row has sent an UPDATE assigning another user_id, and it was refused.
C5_Witness ==
    /\ lastOp.op \in UpdateOps
    /\ lastOp.result = "AuthorizationError"
    /\ StoredOwner = {lastOp.caller}
    /\ AssignedOwner \notin {{}, {lastOp.caller}}

\* C6: after reportProgress(u, b, cp, tp) with tp > 0 and 0 <= cp <= tp the stored
\* progress is cp / tp * 100 rounded to two decimals: it differs from the exact
\* percentage by at most half a hundredth, and 50 of 200 gives 25.00.
C6_StoredProgressIsRoundedPercent ==
    (Reported /\ lastOp.args[2] > 0 /\ 0 <= lastOp.args[1] /\ lastOp.args[1] <= lastOp.args[2]) =>
       \E r \in reading_progress :
          /\ r.id = lastOp.id
          /\ 2 * Abs(r.progress * lastOp.args[2] - 10000 * lastOp.args[1]) <= lastOp.args[2]
          /\ lastOp.args = <<50, 200>> => r.progress = 2500

\* reportProgress with page 2 of 3 has stored 66.67.
C6_Witness ==
    /\ Reported
    /\ lastOp.args = <<2, 3>>
    /\ \E r \in reading_progress : r.id = lastOp.id /\ r.progress = 6667

\* C7 as stated: every reading_progress row satisfies 0 <= current_page <= total_pages
\* and 0 <= progress <= 100.
C7_Original ==
    \A r \in reading_progress :
       /\ 0 <= r.current_page /\ r.current_page <= r.total_pages
       /\ 0 <= r.progress /\ r.progress <= 10000

\* C8 as stated: every row of both tables references an existing user and an existing
\* book.
C8_Original ==
    \A r \in reading_progress \cup reading_sessions :
       r.user_id \in auth_users /\ r.book_id \in books

\* C9: when the owner calls closeSession with pages_read = n >= 0 on the session an
\* openSession has just returned, the call succeeds and the session has a non-null
\* end_time, duration = end_time - start_time >= 0 and pages_read = n.
C9_OpenThenClose ==
    [][(/\ lastOp.op = "OpenSession" /\ lastOp.result = "ok"
        /\ lastOp'.op = "CloseSession"
        /\ lastOp'.id = lastOp.id /\ lastOp'.caller = lastOp.caller
        /\ lastOp'.args[1] >= 0) =>
          /\ lastOp'.result = "ok"
          /\ \E r \in reading_sessions' :
                /\ r.id = lastOp'.id
                /\ r.end_time = {now}
                /\ r.duration = now - r.start_time
                /\ r.duration >= 0
                /\ r.pages_read = lastOp'.args[1]]_vars

\* A session was opened and closed at the next instant with pages_read = 10.
C9_Witness ==
    /\ lastOp.op = "CloseSession" /\ lastOp.result = "ok" /\ lastOp.args = <<10>>
    /\ \E r \in reading_sessions :
          /\ r.id = lastOp.id
          /\ r.start_time = r.created_at
          /\ r.end_time = {r.start_time + 1}
          /\ r.pages_read = 10
          /\ r.duration = 1

\* The orders, as sequences of row ids, in which listSessions may return the sessions of
\* user u for book b to u.
IdListings(u, b) ==
    {[i \in 1..Len(sq) |-> sq[i].id] : sq \in ListSessions(u, u, b).listings}

\* What listSessions returns to the owner for a book: every session of the pair, open
\* ones included, each once, in the order in which the sessions were created.  The ids
\* of the model are handed out in that order.
ListsInCreationOrder ==
    \A u \in UserIds, b \in BookIds :
       LET ls == ListSessions(u, u, b) IN
       /\ ls.rows = SessionRowsOf(u, b)
       /\ ls.listings # {}
       /\ \A sq \in ls.listings :
             /\ Len(sq) = Cardinality(ls.rows)
             /\ {sq[i] : i \in 1..Len(sq)} = ls.rows
             /\ \A i \in 1..Len(sq), j \in 1..Len(sq) : i < j => sq[i].id < sq[j].id

\* C10: listSessions(u, b) returns every session of the pair, open ones included, in the
\* order in which the sessions were created, and a closeSession changes no session's
\* position in any listing.
C10_Original ==
    /\ []ListsInCreationOrder
    /\ [][(lastOp'.op = "CloseSession" /\ lastOp'.result = "ok") =>
             \A u \in UserIds, b \in BookIds : IdListings(u, b)' = IdListings(u, b)]_vars

\* C11: in every state an openSession of an existing user for an existing book would
\* succeed, however many sessions of the pair exist, open or closed; and an openSession
\* that succeeds adds one open session and leaves every other session as it was.
C11_OpenNeverBlocked ==
    /\ [](\A u \in auth_users, b \in books :
             InsertSessionResult(u, OpenColumns(u, b)) = "ok")
    /\ [][\A u \in auth_users, b \in books :
             OpenSession(u, u, b) =>
             /\ lastOp'.result = "ok"
             /\ \E r \in reading_sessions' :
                   /\ r.id = lastOp'.id /\ r.end_time = {}
                   /\ r \notin reading_sessions
                   /\ reading_sessions' = reading_sessions \cup {r}]_vars

\* A session has been opened for a pair that already had an open session: both are open.
C11_Witness ==
    /\ lastOp.op = "OpenSession" /\ lastOp.result = "ok"
    /\ \E r \in SessionRowsOf(lastOp.user, lastOp.book), q \in SessionRowsOf(lastOp.user, lastOp.book) :
          /\ r.id = lastOp.id /\ q.id # r.id
          /\ r.end_time = {} /\ q.end_time = {}

AllRows == reading_progress \cup reading_sessions

\* C12 as stated: whatever the operation, a row keeps the created_at it was inserted
\* with, and a row that an operation changes has the time of that operation as updated_at.
C12_Original ==
    [][\A r \in AllRows : \A q \in AllRows' :
          q.id = r.id => /\ q.created_at = r.created_at
                         /\ q # r => q.updated_at = now]_vars

CallOps == {"ReportProgress", "OpenSession", "CloseSession"}
ErrorKinds == {"ValidationError", "ReferenceError", "ConstraintViolation", "AuthorizationError"}

\* C14: a reportProgress or openSession that names a user or a book that does not exist
\* never succeeds, changes no table and creates no user or book; when nothing else is
\* wrong with the call (the caller is the user named, the input is valid) it fails with
\* ReferenceError.
C14_MissingReferenceFails ==
    [][\A u \in UserIds, b \in BookIds, c \in UserIds :
          (u \notin auth_users \/ b \notin books) =>
             /\ \A cp \in CallPages, tp \in CallTotals, strict \in BOOLEAN :
                   (b \in CallBooks /\ ReportProgress(c, u, b, cp, tp, strict)) =>
                      /\ lastOp'.result \in ErrorKinds
                      /\ UNCHANGED <<reading_progress, reading_sessions, auth_users, books>>
                      /\ (c = u /\ tp # {} /\ ReportValidation(cp, tp, strict) = "ok") =>
                            lastOp'.result = "ReferenceError"
             /\ OpenSession(c, u, b) =>
                   /\ lastOp'.result \in ErrorKinds
                   /\ UNCHANGED <<reading_progress, reading_sessions, auth_users, books>>
                   /\ c = u => lastOp'.result = "ReferenceError"]_vars

\* A reportProgress has failed with ReferenceError after a book was deleted, the user
\* still existing.
C14_Witness ==
    /\ lastOp.op = "ReportProgress" /\ lastOp.result = "ReferenceError"
    /\ books # BookIds
    /\ auth_users = UserIds

\* C15: a reportProgress with a negative page count, or in strict mode with total_pages 0
\* or missing, fails with ValidationError and has not reached the store; in non-strict
\* mode with total_pages 0 or missing the computed progress is 0, the call is not a
\* ValidationError, and the row it stores, if any, has progress 0.
C15_ValidationBeforeStore ==
    [][\A c \in UserIds, u \in UserIds, b \in CallBooks, cp \in CallPages, tp \in CallTotals,
          strict \in BOOLEAN :
          ReportProgress(c, u, b, cp, tp, strict) =>
             /\ (cp < 0 \/ (strict /\ OrDefault(tp, 0) = 0)) =>
                   /\ lastOp'.result = "ValidationError"
                   /\ UNCHANGED <<reading_progress, reading_sessions, now, nextId>>
             /\ (cp >= 0 /\ ~strict /\ OrDefault(tp, 0) = 0) =>
                   /\ ReportPayload(u, b, cp, tp).progress = {<<0, 100>>}
                   /\ lastOp'.result # "ValidationError"
                   /\ lastOp'.result = "ok" =>
                         \E r \in reading_progress' :
                            r.id = lastOp'.id /\ r.progress = 0 /\ r.total_pages = 0]_vars

\* A non-strict reportProgress with total_pages = 0 has stored a row with progress 0.
C15_Witness ==
    /\ Reported
    /\ lastOp.args = <<3, 0>>
    /\ \E r \in reading_progress : r.id = lastOp.id /\ r.progress = 0 /\ r.total_pages = 0

\* C16 as stated: in every state current_page, pages_read and duration of every row are
\* non-negative and total_pages is strictly positive.
C16_Original ==
    /\ \A r \in reading_progress : r.current_page >= 0 /\ r.total_pages > 0
    /\ \A r \in reading_sessions : r.pages_read >= 0 /\ r.duration >= 0

\* C17: a row of either table disappears only in the step that deletes the user or the
\* book it references; every other operation of a caller, DELETE included, keeps every
\* row, with the user_id it had.
C17_RowsLeaveOnlyByCascade ==
    [][\A r \in AllRows :
          \/ \E q \in AllRows' : q.id = r.id /\ q.user_id = r.user_id
          \/ lastOp'.op = "DeleteUser" /\ r.user_id = lastOp'.user
          \/ lastOp'.op = "DeleteBook" /\ r.book_id = lastOp'.book]_vars

\* The owner of a row has sent a DELETE for it, and the row is still there.
C17_Witness ==
    /\ lastOp.op \in {"DeleteProgress", "DeleteSession"}
    /\ lastOp.result = "NoRows"
    /\ \E r \in AllRows : r.id = lastOp.id /\ r.user_id = lastOp.caller

\* C18: a reportProgress(u, b, cp, tp) for a pair without a row adds one row with
\* created_at = last_read_at = now; for a pair with a row it replaces current_page,
\* total_pages and progress of that row, sets last_read_at to now and keeps its id,
\* user_id, book_id and created_at; no other row changes.
C18_FirstInsertsLaterUpdate ==
    [][\A u \in UserIds, b \in BookIds, cp \in PercentPages, tp \in PercentTotals :
          ReportProgress(u, u, b, cp, tp, FALSE) =>
             \E q \in reading_progress' :
                /\ q.id = lastOp'.id /\ q.user_id = u /\ q.book_id = b
                /\ q.last_read_at = now
                /\ q.total_pages = OrDefault(tp, 0)
                /\ q.current_page = ClampPage(cp, q.total_pages)
                /\ 2 * Abs(q.progress * q.total_pages - 10000 * q.current_page) <= q.total_pages
                /\ IF ProgressRowsOf(u, b) = {}
                   THEN /\ q.created_at = now
                        /\ q \notin reading_progress
                        /\ \A r \in reading_progress : r.id # q.id
                        /\ reading_progress' = reading_progress \cup {q}
                   ELSE \E r \in ProgressRowsOf(u, b) :
                           /\ q.id = r.id /\ q.created_at = r.created_at
                           /\ reading_progress' = (reading_progress \ {r}) \cup {q}]_vars

\* The third reportProgress for a pair: the row inserted at time 0 has been updated at
\* time 2 to page 50 of 200.
C18_Witness ==
    /\ Reported
    /\ lastOp.args = <<50, 200>>
    /\ \E r \in reading_progress :
          /\ r.id = lastOp.id /\ r.created_at = 0 /\ r.last_read_at = 2
          /\ r.current_page = 50 /\ r.progress = 2500

\* C19 as stated: a session's start_time, user_id and book_id never change, a closed
\* session's end_time, pages_read and duration never change, and the only change a
\* session undergoes is its close.
C19_Original ==
    [][\A r \in reading_sessions : \A q \in reading_sessions' :
          q.id = r.id =>
             /\ q.start_time = r.start_time /\ q.user_id = r.user_id /\ q.book_id = r.book_id
             /\ q.created_at = r.created_at
             /\ r.end_time # {} =>
                   (q.end_time = r.end_time /\ q.pages_read = r.pages_read
                       /\ q.duration = r.duration)
             /\ q # r => (r.end_time = {} /\ q.end_time # {})]_vars

\* C20 as stated: the book_id of a reading_progress row never changes.
C20_Original ==
    [][\A r \in reading_progress : \A q \in reading_progress' :
          q.id = r.id => q.book_id = r.book_id]_vars

\* C21: every row of both tables has a non-null user_id; a row that appears has the
\* identity of the caller whose statement inserted it as user_id, and a row that stays
\* keeps its user_id whatever statement is sent.
C21_RowsBelongToInserter ==
    /\ [](\A r \in AllRows : r.user_id \in UserIds)
    /\ [][\A q \in AllRows' :
             IF \E r \in AllRows : r.id = q.id
             THEN \A r \in AllRows : r.id = q.id => q.user_id = r.user_id
             ELSE lastOp'.caller # NULL /\ q.user_id = lastOp'.caller]_vars

\* The owner of a row has tried to hand it to another user; the row is still the owner's.
C21_Witness ==
    /\ lastOp.op \in UpdateOps
    /\ lastOp.result = "AuthorizationError"
    /\ AssignedOwner \in {{u} : u \in UserIds \ {lastOp.caller}}
    /\ \E r \in AllRows : r.id = lastOp.id /\ r.user_id = lastOp.caller

(***************************************************************************)
(* BookEditor and BookForm.                                                *)
(***************************************************************************)

\* The parts of the statement of the auto-save.
SentAfterQuietDelay ==
    \A i \in 1..Len(bookEditor.requests) :
        bookEditor.requests[i].at - bookEditor.requests[i].lastUpdate >= AutoSaveDelay
OneTimerPending == Cardinality(bookEditor.timers) <= 1
OneAutoSavePerBurst ==
    \A i, j \in 1..Len(bookEditor.requests) :
        bookEditor.requests[i].lastUpdate = bookEditor.requests[j].lastUpdate => i = j
NothingSentWhenEmpty ==
    \A i \in 1..Len(bookEditor.requests) :
        /\ bookEditor.requests[i].shownTitle # ""
        /\ bookEditor.requests[i].content # <<>>

\* C22: an auto-save request is sent only 5 seconds or more after the last update of the
\* editor, at most one auto-save timer is pending, the updates of a burst produce one
\* request, and no request is sent while the title or the text of the editor is empty.
C22_Original ==
    /\ SentAfterQuietDelay
    /\ OneTimerPending
    /\ OneAutoSavePerBurst
    /\ NothingSentWhenEmpty

Rank(call) == CHOOSE i \in 1..Len(SubmitCalls) : SubmitCalls[i] = call
Called(submit, call) == \E i \in 1..Len(submit.calls) : submit.calls[i][1] = call
Fulfilled(submit, call) == Includes(submit.calls, <<call, TRUE>>)
Ended(submit) == submit.pc \in {"done", "invalid"}

\* What holds of a submit at any moment.
SubmitInOrder(submit) ==
    LET calls == submit.calls
        closure == submit.closure
    IN  /\ \A i, j \in 1..Len(calls) : i < j => Rank(calls[i][1]) < Rank(calls[j][1])
        /\ \A i \in 1..Len(calls) : i < Len(calls) => calls[i][2]
        /\ Called(submit, "uploadBookCover") => closure.coverFile
        /\ Called(submit, "uploadBookFile") => closure.bookFile
        /\ Called(submit, "addBook") =>
              /\ closure.coverFile => Fulfilled(submit, "uploadBookCover")
              /\ closure.bookFile => Fulfilled(submit, "uploadBookFile")
        /\ Called(submit, "addBookTags") =>
              /\ Fulfilled(submit, "addBook")
              /\ Len(closure.selectedTags) > 0
        /\ (submit.toast = "Success" \/ submit.pushed) =>
              /\ submit.toast = "Success" /\ submit.pushed
              /\ \A i \in 1..Len(calls) : calls[i][2]
              /\ Fulfilled(submit, "addBook")
              /\ Len(closure.selectedTags) > 0 => Fulfilled(submit, "addBookTags")
        /\ submit.pc = "done" => submit.toast \in {"Success", "Error"}

\* C23: the calls of a submit are made in the order uploadBookCover, uploadBookFile,
\* addBook, addBookTags and nothing is called after a call that failed; an upload is
\* called only for a chosen file; addBook is called only after every requested upload
\* succeeded; addBookTags only after addBook succeeded and with at least one selected
\* tag; the success toast and the navigation happen together and only when every step
\* succeeded; the step that ends a submit leaves isSubmitting false, and isSubmitting
\* is false when every submit has ended.
C23_SubmitStepsInOrder ==
    /\ [](/\ \A i \in 1..Len(bookForm.submits) : SubmitInOrder(bookForm.submits[i])
          /\ (\A i \in 1..Len(bookForm.submits) : Ended(bookForm.submits[i]))
                => ~bookForm.isSubmitting)
    /\ [][\A i \in 1..Len(bookForm.submits) :
             (bookForm.submits[i].pc \in Elements(SubmitCalls)
                 /\ bookForm'.submits[i].pc = "done")
             => ~bookForm'.isSubmitting]_vars
C23_Witness ==
    \E i \in 1..Len(bookForm.submits) :
       /\ bookForm.submits[i].toast = "Success"
       /\ Len(bookForm.submits[i].calls) = 4
       /\ ~bookForm.isSubmitting

NoDuplicates(s) == \A i, j \in 1..Len(s) : s[i] = s[j] => i = j
IsBlank(tag) == \A i \in 1..Len(tag) : IsWhiteSpace(tag[i])

\* C24: selectedTags never holds a tag twice nor a tag without a character other than
\* white space, the "tags" value of the form equals selectedTags, handleTagSelect applied
\* twice to a tag gives the set of tags it started from, and handleAddNewTag leaves the
\* selection as it was when the trimmed input is empty, selected or a predefined tag.
C24_TagsStayASet ==
    /\ [](/\ NoDuplicates(bookForm.selectedTags)
          /\ \A tag \in Elements(bookForm.selectedTags) : ~IsBlank(tag)
          /\ bookForm.tags = bookForm.selectedTags
          /\ \A tag \in TagBadges \cup {Trim(bookForm.newTag)} :
                LET twice == TagSelect(TagSelect(bookForm.selectedTags, tag), tag)
                IN  /\ Elements(twice) = Elements(bookForm.selectedTags)
                    /\ Len(twice) = Len(bookForm.selectedTags))
    /\ [][(/\ HandleAddNewTag
           /\ \/ Trim(bookForm.newTag) = <<>>
              \/ Trim(bookForm.newTag) \in Elements(bookForm.selectedTags)
              \/ Trim(bookForm.newTag) \in Elements(availableTags))
          => /\ bookForm'.selectedTags = bookForm.selectedTags
             /\ bookForm'.tags = bookForm.tags]_vars
C24_Witness ==
    /\ bookForm.toast = "TagAlreadyAdded"
    /\ bookForm.newTag = <<12288>> \o availableTags[5]
    /\ Includes(bookForm.selectedTags, <<120>>)
    /\ Includes(bookForm.selectedTags, <<121, 32, 122>>)

====
